---- MODULE Spec2Model ----
\* watchf: the debounce loop of watch_for_changes (src/main/watch.c) with the
\* kernel objects it drives (a signalfd, an inotify instance and its watch).
\*
\* `run` is one execution of watch_for_changes; `twin` is a second execution
\* that receives the same inputs but differs from `run` in exactly one of the
\* two flags (continuous, verbose).
EXTENDS Integers, Sequences, FiniteSets, TLC

VARIABLES run, twin

vars ==
    <<run, twin>>

\* ---------------------------------------------------------------- bounds
\* Total number of notifications the kernel generates in one behaviour.
MaxNotify ==
    3

\* Number of records in one read, where watch_handler is checked by itself.
MaxBatch ==
    3

\* ------------------------------------------------------- program constants
EXIT_SUCCESS ==
    0

EXIT_FAILURE ==
    1

FD_POLL_SIGNAL ==
    0

FD_POLL_INOTIFY ==
    1

\* sizeof(struct inotify_event): wd, mask, cookie, len, four 32-bit fields.
SizeofInotifyEvent ==
    16

EVENT_BUF_LEN ==
    SizeofInotifyEvent * 16

SIGINT ==
    2

SIGTERM ==
    15

\* The two poll timeouts, in milliseconds.
TimeoutAccumulating ==
    100

TimeoutIdle ==
    1000

\* ------------------------------------------------------------ environment
\* Lengths of the name field of a queued record: none (the target is a file),
\* a name that lets two records fit the read buffer, and a name of NAME_MAX
\* characters, padded to 256, whose record is larger than the whole buffer.
NameLens ==
    {0, 112, 256}

\* The records the kernel can queue for a watch of IN_MODIFY | IN_EXCL_UNLINK:
\* a modification, and IN_IGNORED when the watch is removed under the program
\* (target deleted, file system unmounted).
ModifyRecords ==
    {[mask |-> {"IN_MODIFY"}, len |-> l] : l \in NameLens}

IgnoredRecord ==
    [mask |-> {"IN_IGNORED"}, len |-> 0]

\* What can become of the command run by system().
CommandResults ==
    {[how |-> "exit", code |-> 0], [how |-> "exit", code |-> 1],
     [how |-> "exit", code |-> 127], [how |-> "signal", code |-> 9],
     [how |-> "core", code |-> 11], [how |-> "nofork", code |-> 0]}

StartupOutcomes ==
    {"ok", "signal_fail", "inotify_fail", "watch_fail"}

\* ------------------------------------------------------------ C helpers
\* The lowest descriptor number not in use; 0, 1 and 2 are the standard streams.
NewFd(open) ==
    CHOOSE n \in 3..(3 + Cardinality(open)) :
        /\ n \notin open
        /\ \A m \in 3..(n - 1) : m \in open

\* close(fd): the descriptor leaves the process's table; closing the inotify
\* descriptor destroys the instance with its watches and its queue.
close(s, fd) ==
    IF fd \in s.open_fds
    THEN IF fd = s.k_inotify
         THEN [s EXCEPT !.open_fds = @ \ {fd}, !.k_inotify = -1,
                        !.k_watch = {}, !.queue = <<>>]
         ELSE IF fd = s.k_signalfd
              THEN [s EXCEPT !.open_fds = @ \ {fd}, !.k_signalfd = -1]
              ELSE [s EXCEPT !.open_fds = @ \ {fd}]
    ELSE s

\* The wait status system() returns for a command result: exit code << 8 for a
\* normal exit, the signal number (| 0x80 with a core dump) for a killed
\* child, -1 when no child could be created.
system(result) ==
    CASE result.how = "exit" -> result.code * 256
      [] result.how = "signal" -> result.code
      [] result.how = "core" -> result.code + 128
      [] OTHER -> -1

\* WIFEXITED(status): ((status) & 0x7f) == 0, as a C truth value.
WIFEXITED(status) ==
    IF status % 128 = 0 THEN 1 ELSE 0

\* ------------------------------------------------------------ watch_handler
\* read(inf, buf, EVENT_BUF_LEN) on an inotify descriptor: the longest prefix
\* of whole records that fits the buffer; when not even the first record
\* fits, the read fails (EINVAL) and consumes nothing.
RECURSIVE FitCount(_, _)
FitCount(q, room) ==
    IF q = <<>> \/ SizeofInotifyEvent + Head(q).len > room
    THEN 0
    ELSE 1 + FitCount(Tail(q), room - (SizeofInotifyEvent + Head(q).len))

read_batch(q) ==
    SubSeq(q, 1, FitCount(q, EVENT_BUF_LEN))

\* Mutant: every record is counted, the test of the mask is lost.
RECURSIVE watch_handler_counts_all(_)
watch_handler_counts_all(batch) ==
    IF batch = <<>>
    THEN 0
    ELSE 1 + watch_handler_counts_all(Tail(batch))

\* The loop of watch_handler over one batch: one count per record whose mask
\* has the IN_MODIFY bit. A failed read (len = -1) gives the empty batch.
RECURSIVE watch_handler(_)
watch_handler(batch) ==
    IF batch = <<>>
    THEN 0
    ELSE (IF "IN_MODIFY" \in Head(batch).mask THEN 1 ELSE 0)
         + watch_handler(Tail(batch))

\* if (verbose) { printf(...); }: n lines of diagnostics, counted in out.
say(s, n) ==
    IF s.verbose THEN [s EXCEPT !.out = @ + n] ELSE s

\* ------------------------------------------------------- setup and teardown
initialize_signals(s, ok) ==
    IF ok
    THEN LET fd == NewFd(s.open_fds)
         IN  [s EXCEPT !.signal_fd = fd, !.open_fds = @ \cup {fd}, !.k_signalfd = fd]
    ELSE [s EXCEPT !.signal_fd = -1]

\* initialise_watcher returns inf (here: leaves it in inotify_fd).
initialise_watcher(s, outcome) ==
    IF outcome = "inotify_fail"
    THEN [s EXCEPT !.inotify_fd = -1]
    ELSE LET inf == NewFd(s.open_fds)
             opened == [s EXCEPT !.open_fds = @ \cup {inf}, !.k_inotify = inf,
                                 !.inotify_fd = inf]
         IN  IF outcome = "watch_fail"
             THEN opened
             ELSE [say(opened, 1) EXCEPT !.k_watch = {1},
                                         !.s_inotify_instance = inf,
                                         !.s_watch_instance = 1]

\* Mutant: the instance is closed first and the watch removed afterwards.
shutdown_watcher_close_first(s) ==
    IF s.s_inotify_instance # -1
    THEN LET a == [close(s, s.s_inotify_instance) EXCEPT
                       !.teardown = Append(@, "close")]
         IN  IF a.s_watch_instance # -1
             THEN [a EXCEPT !.k_watch = @ \ {a.s_watch_instance},
                            !.teardown = Append(@, "inotify_rm_watch"),
                            !.s_watch_instance = -1,
                            !.s_inotify_instance = -1]
             ELSE [a EXCEPT !.s_inotify_instance = -1]
    ELSE s

\* teardown logs the calls shutdown_watcher makes, in their order.
shutdown_watcher(s) ==
    IF s.s_inotify_instance # -1
    THEN LET a == IF s.s_watch_instance # -1
                  THEN [s EXCEPT !.k_watch = @ \ {s.s_watch_instance},
                                 !.teardown = Append(@, "inotify_rm_watch"),
                                 !.s_watch_instance = -1]
                  ELSE s
         IN  [close(a, a.s_inotify_instance) EXCEPT
                  !.teardown = Append(@, "close"),
                  !.s_inotify_instance = -1]
    ELSE s

\* The tail of watch_for_changes after the loop.
loop_exit(s) ==
    [close(shutdown_watcher(say(s, 1)), s.signal_fd) EXCEPT !.pc = "done"]

\* The head of watch_for_changes, up to the first poll.
watch_startup(s, outcome) ==
    LET a == initialize_signals([s EXCEPT !.startup = outcome],
                                outcome # "signal_fail")
    IN  IF a.signal_fd = -1
        THEN [a EXCEPT !.ret = EXIT_FAILURE, !.pc = "done"]
        ELSE LET b == initialise_watcher(a, outcome)
             IN  IF b.inotify_fd = -1
                 THEN [close(b, b.signal_fd) EXCEPT !.ret = EXIT_FAILURE,
                                                    !.pc = "done"]
                 ELSE [b EXCEPT !.ret = EXIT_SUCCESS, !.watch_events = 0,
                                !.pc = "poll"]

\* ------------------------------------------------------------ the loop
\* The revents of the two poll handles that have POLLIN set: the signalfd is
\* readable while a blocked signal is pending, the inotify descriptor while
\* its queue is not empty.
revents(s) ==
    (IF s.sigpending # {} THEN {FD_POLL_SIGNAL} ELSE {})
    \cup (IF s.queue # <<>> THEN {FD_POLL_INOTIFY} ELSE {})

\* poll(poll_handles, FD_POLL_MAX, timeout): -1 on an error, otherwise the
\* number of ready handles, 0 being the timeout.
poll(s, fail) ==
    IF fail THEN -1 ELSE Cardinality(revents(s))

\* Mutant: the two timeouts are swapped.
choose_timeout_swapped(watch_events) ==
    IF watch_events # 0 THEN TimeoutIdle ELSE TimeoutAccumulating

\* int timeout = watch_events ? 100 : 1000;
choose_timeout(watch_events) ==
    IF watch_events # 0 THEN TimeoutAccumulating ELSE TimeoutIdle

\* Mutant: the trigger test reads >= 0.
timeout_fires_always(watch_events) ==
    watch_events >= 0

\* Mutant: the trigger test reads > 1.
timeout_fires_above_one(watch_events) ==
    watch_events > 1

\* if (watch_events > 0)
timeout_fires(watch_events) ==
    watch_events > 0

\* Mutant: any nonzero wait status stops the session.
stop_request_any_nonzero(rc) ==
    rc # 0

\* if (rc != 0) { if (WIFEXITED(rc) != 0) { break; } }
stop_request(rc) ==
    rc # 0 /\ WIFEXITED(rc) # 0

\* if (fdsi.ssi_signo == SIGINT || fdsi.ssi_signo == SIGTERM)
is_shutdown_signal(signo) ==
    signo = SIGINT \/ signo = SIGTERM

\* The signal one read of the signalfd dequeues: the lowest pending one.
next_signal(s) ==
    CHOOSE g \in s.sigpending : \A h \in s.sigpending : g <= h

\* Mutant: the trigger forgets to reset the pending count.
on_timeout_noreset(s) ==
    IF timeout_fires(s.watch_events)
    THEN [s EXCEPT !.pc = "system",
                   !.invocations = @ + 1, !.fired_burst = s.burst,
                   !.burst = 0, !.last = "fire"]
    ELSE [s EXCEPT !.last = "idle"]

\* Mutant: the trigger takes one event off the pending count.
on_timeout_decrements(s) ==
    IF timeout_fires(s.watch_events)
    THEN [s EXCEPT !.watch_events = @ - 1, !.pc = "system",
                   !.invocations = @ + 1, !.fired_burst = s.burst,
                   !.fired_pending = s.watch_events,
                   !.burst = 0, !.last = "fire"]
    ELSE [s EXCEPT !.last = "idle"]

\* Mutant: the command is started in the background and the loop goes on.
on_timeout_async(s) ==
    IF timeout_fires(s.watch_events)
    THEN [s EXCEPT !.watch_events = 0,
                   !.invocations = @ + 1, !.fired_burst = s.burst,
                   !.fired_pending = s.watch_events,
                   !.running = @ + 1,
                   !.burst = 0, !.last = "fire"]
    ELSE [s EXCEPT !.last = "idle"]

\* npoll == 0: fire the command when events are pending, up to the call of
\* system(), which blocks the loop until system_return.
on_timeout(s) ==
    IF timeout_fires(s.watch_events)
    THEN [say(s, 1) EXCEPT !.watch_events = 0, !.pc = "system",
                   !.invocations = @ + 1, !.fired_burst = s.burst,
                   !.fired_pending = s.watch_events,
                   !.running = @ + 1,
                   !.burst = 0, !.last = "fire"]
    ELSE [s EXCEPT !.last = "idle"]

\* Mutant: a failed poll is taken for a timeout.
on_poll_error_as_timeout(s) ==
    IF s.watch_events > 0
    THEN [s EXCEPT !.watch_events = 0, !.pc = "system",
                   !.invocations = @ + 1, !.fired_burst = s.burst,
                   !.burst = 0, !.last = "pollerr"]
    ELSE [s EXCEPT !.last = "pollerr"]

\* npoll < 0
on_poll_error(s) ==
    loop_exit([s EXCEPT !.ret = EXIT_FAILURE, !.last = "pollerr"])

\* Mutant: no debounce, the command is fired by the drain that counted.
on_inotify_fires(s) ==
    LET batch == read_batch(s.queue)
        count == watch_handler(batch)
        a == [s EXCEPT !.queue = SubSeq(@, Len(batch) + 1, Len(@)),
                       !.burst = @ + count, !.last = "drain"]
    IN  IF count > 0
        THEN [a EXCEPT !.pc = "system", !.invocations = @ + 1]
        ELSE a

\* Mutant: the pending count grows by the number of records counted.
on_inotify_adds_count(s) ==
    LET batch == read_batch(s.queue)
        count == watch_handler(batch)
    IN  [s EXCEPT !.queue = SubSeq(@, Len(batch) + 1, Len(@)),
                  !.watch_events = @ + count,
                  !.burst = @ + count,
                  !.last = "drain"]

\* Mutant: the count is only kept when the events are reported.
on_inotify_counts_when_verbose(s) ==
    LET batch == read_batch(s.queue)
        count == IF s.verbose THEN watch_handler(batch) ELSE 0
    IN  [say(s, count) EXCEPT !.queue = SubSeq(@, Len(batch) + 1, Len(@)),
                  !.watch_events = IF count > 0 THEN @ + 1 ELSE @,
                  !.burst = @ + count,
                  !.last = "drain"]

\* The inotify branch: one call of watch_handler on one read; in verbose
\* mode watch_handler reports each record it counts.
on_inotify(s) ==
    LET batch == read_batch(s.queue)
        count == watch_handler(batch)
    IN  [say(s, count) EXCEPT !.queue = SubSeq(@, Len(batch) + 1, Len(@)),
                  !.watch_events = IF count > 0 THEN @ + 1 ELSE @,
                  !.burst = @ + count,
                  !.last = "drain"]

\* Mutant: a short read of the signal record is reported but does not break.
on_ready_ignores_short_read(s, shortread) ==
    LET ev == revents(s)
    IN  IF FD_POLL_SIGNAL \in ev /\ ~shortread
           /\ is_shutdown_signal(next_signal(s))
        THEN loop_exit([s EXCEPT !.sigpending = @ \ {next_signal(s)},
                                 !.last = "signal"])
        ELSE LET a == IF FD_POLL_SIGNAL \in ev
                      THEN [s EXCEPT !.ret = IF shortread
                                              THEN EXIT_FAILURE ELSE @,
                                     !.last = IF shortread
                                              THEN "shortread"
                                              ELSE "othersignal"]
                      ELSE s
             IN  IF FD_POLL_INOTIFY \in ev
                 THEN [on_inotify(a) EXCEPT !.last = a.last]
                 ELSE a

\* npoll > 0: the signal handle first, then the inotify handle.
on_ready(s, shortread) ==
    LET ev == revents(s)
    IN  IF FD_POLL_SIGNAL \in ev /\ shortread
        THEN loop_exit([s EXCEPT !.ret = EXIT_FAILURE, !.last = "shortread"])
        ELSE IF FD_POLL_SIGNAL \in ev /\ is_shutdown_signal(next_signal(s))
             THEN loop_exit([say(s, 1) EXCEPT
                                 !.sigpending = @ \ {next_signal(s)},
                                 !.last = "signal"])
             ELSE LET a == IF FD_POLL_SIGNAL \in ev
                           THEN [say(s, 1) EXCEPT
                                     !.sigpending = @ \ {next_signal(s)},
                                     !.last = "othersignal"]
                           ELSE s
                  IN  IF FD_POLL_INOTIFY \in ev THEN on_inotify(a) ELSE a

\* One pass of the for (;;) body.
loop_iteration(s, in) ==
    LET t == [s EXCEPT !.timeout = choose_timeout(s.watch_events)]
        npoll == poll(t, in.pollfail)
    IN  IF npoll = 0
        THEN on_timeout(t)
        ELSE IF npoll < 0
             THEN on_poll_error(t)
             ELSE on_ready(t, in.shortread)

\* Mutant: a stop request is reported as a failure of the session.
system_return_failure(s, result) ==
    LET rc == system(result)
        a == [s EXCEPT !.rc = rc, !.cmd = result, !.last = "returned"]
    IN  IF stop_request(rc)
        THEN loop_exit([a EXCEPT !.ret = EXIT_FAILURE])
        ELSE [a EXCEPT !.pc = "poll"]

\* Mutant: single-shot mode ends the session after the first invocation.
system_return_single_shot(s, result) ==
    LET rc == system(result)
        a == [s EXCEPT !.rc = rc, !.cmd = result, !.last = "returned"]
    IN  IF stop_request(rc) \/ ~s.continuous
        THEN loop_exit(a)
        ELSE [a EXCEPT !.pc = "poll"]

\* system(command) returns: the stop decision.
system_return(s, result) ==
    LET rc == system(result)
        a == [say(s, 1) EXCEPT !.rc = rc, !.cmd = result, !.running = @ - 1,
                       !.last = "returned"]
    IN  IF stop_request(rc)
        THEN loop_exit(a)
        ELSE [a EXCEPT !.pc = "poll"]

\* ------------------------------------------------------------ the kernel
\* A notification for the watch: queued unless it equals the newest queued
\* record (the kernel merges those); IN_IGNORED ends the watch.
deliver(s, rec) ==
    IF s.k_watch = {}
    THEN s
    ELSE [s EXCEPT !.queue = IF @ # <<>> /\ @[Len(@)] = rec
                             THEN @ ELSE Append(@, rec),
                   !.delivered = @ + 1,
                   !.modified = @ + (IF "IN_MODIFY" \in rec.mask THEN 1 ELSE 0),
                   !.k_watch = IF rec = IgnoredRecord THEN {} ELSE @,
                   !.last = "notify"]

\* SIGINT or SIGTERM is sent to the process: blocked, it stays pending.
raise(s, sig) ==
    IF s.k_signalfd = -1
    THEN s
    ELSE [s EXCEPT !.sigpending = @ \cup {sig}, !.last = "raise"]

\* ------------------------------------------------------------ specification
DefaultIn ==
    [startup |-> "ok", pollfail |-> FALSE, shortread |-> FALSE,
     result |-> [how |-> "exit", code |-> 0]]

\* One step of an execution on the inputs `in`, by its position.
Step(s, in) ==
    CASE s.pc = "start" -> watch_startup(s, in.startup)
      [] s.pc = "poll" -> loop_iteration(s, in)
      [] s.pc = "system" -> system_return(s, in.result)
      [] OTHER -> s

Both(in) ==
    /\ run' = Step(run, in)
    /\ twin' = Step(twin, in)

InitialRun(continuous, verbose) ==
    [pc |-> "start", ret |-> EXIT_FAILURE, signal_fd |-> -1, inotify_fd |-> -1,
     s_watch_instance |-> -1, s_inotify_instance |-> -1,
     watch_events |-> 0, timeout |-> 0, rc |-> 0,
     continuous |-> continuous, verbose |-> verbose,
     open_fds |-> {}, k_signalfd |-> -1, k_inotify |-> -1, k_watch |-> {},
     queue |-> <<>>, sigpending |-> {},
     startup |-> "none", last |-> "none", cmd |-> [how |-> "none", code |-> 0],
     invocations |-> 0, burst |-> 0, fired_burst |-> 0, fired_pending |-> 0,
     running |-> 0, teardown |-> <<>>, out |-> 0,
     delivered |-> 0, modified |-> 0]

Init ==
    \E c \in BOOLEAN, v \in BOOLEAN, flip \in {"continuous", "verbose"} :
        /\ run = InitialRun(c, v)
        /\ twin = IF flip = "continuous"
                  THEN InitialRun(~c, v)
                  ELSE InitialRun(c, ~v)

Startup ==
    /\ run.pc = "start"
    /\ \E o \in StartupOutcomes : Both([DefaultIn EXCEPT !.startup = o])

PollTimeout ==
    /\ run.pc = "poll"
    /\ poll(run, FALSE) = 0
    /\ Both(DefaultIn)

PollError ==
    /\ run.pc = "poll"
    /\ Both([DefaultIn EXCEPT !.pollfail = TRUE])

PollReady ==
    /\ run.pc = "poll"
    /\ poll(run, FALSE) > 0
    /\ \E sr \in BOOLEAN :
        /\ sr => FD_POLL_SIGNAL \in revents(run)
        /\ Both([DefaultIn EXCEPT !.shortread = sr])

SystemReturn ==
    /\ run.pc = "system"
    /\ \E r \in CommandResults : Both([DefaultIn EXCEPT !.result = r])

Notify ==
    /\ run.pc \in {"poll", "system"}
    /\ run.k_watch # {}
    /\ run.delivered < MaxNotify
    /\ \E rec \in ModifyRecords \cup {IgnoredRecord} :
        /\ run' = deliver(run, rec)
        /\ twin' = deliver(twin, rec)

Signal ==
    /\ run.pc \in {"poll", "system"}
    /\ \E sig \in {SIGINT, SIGTERM} :
        /\ sig \notin run.sigpending
        /\ run' = raise(run, sig)
        /\ twin' = raise(twin, sig)

Next ==
    \/ Startup
    \/ PollTimeout
    \/ PollError
    \/ PollReady
    \/ SystemReturn
    \/ Notify
    \/ Signal

Spec ==
    Init /\ [][Next]_vars

\* The loop keeps running: a poll on which nothing is ready and which does
\* not fail returns when its timeout has elapsed. The flags are fixed, the
\* loop reads neither.
LiveInit ==
    /\ run = InitialRun(TRUE, FALSE)
    /\ twin = InitialRun(TRUE, TRUE)

SpecLive ==
    LiveInit /\ [][Next]_vars /\ WF_vars(PollTimeout)

\* ------------------------------------------- watch_handler by itself
\* Records of any kind that a read can return: modifications (alone and with
\* a second bit set), the two halves of a rename sharing a cookie, and other
\* kinds.
HandlerRecords ==
    {[mask |-> {"IN_MODIFY"}, cookie |-> 0, len |-> 0],
     [mask |-> {"IN_MODIFY", "IN_ISDIR"}, cookie |-> 0, len |-> 16],
     [mask |-> {"IN_MOVED_FROM"}, cookie |-> 7, len |-> 16],
     [mask |-> {"IN_MOVED_TO"}, cookie |-> 7, len |-> 16],
     [mask |-> {"IN_ATTRIB"}, cookie |-> 0, len |-> 0],
     [mask |-> {"IN_CLOSE_WRITE"}, cookie |-> 0, len |-> 16]}

RECURSIVE BatchBytes(_)
BatchBytes(batch) ==
    IF batch = <<>>
    THEN 0
    ELSE SizeofInotifyEvent + Head(batch).len + BatchBytes(Tail(batch))

\* What read(inf, buf, len) can give watch_handler: a failure (-1), nothing,
\* or the bytes of up to MaxBatch records.
ReadResults ==
    {[len |-> -1, records |-> <<>>]}
    \cup {[len |-> BatchBytes(b), records |-> b] :
              b \in UNION {[1..n -> HandlerRecords] : n \in 0..MaxBatch}}

HandlerInit ==
    /\ run \in {[pc |-> "call", rd |-> r, events |-> 0] : r \in ReadResults}
    /\ twin = run

\* One call of watch_handler on the result of its read.
HandlerCall ==
    /\ run.pc = "call"
    /\ run' = [run EXCEPT !.pc = "returned",
                          !.events = IF 0 < run.rd.len
                                     THEN watch_handler(run.rd.records)
                                     ELSE 0]
    /\ twin' = run'

HandlerNext ==
    HandlerCall

SpecHandler ==
    HandlerInit /\ [][HandlerNext]_vars

\* ------------------------------------------------------------ properties
\* A step of the loop in which poll returned 0.
TimeoutStep ==
    /\ run.pc = "poll"
    /\ poll(run, FALSE) = 0
    /\ run'.last \in {"fire", "idle"}

\* A step in which system() returned to the loop.
ReturnStep ==
    /\ run.pc = "system"
    /\ run'.pc # "system"

\* The session handles are closed: what shutdown_watcher and the close of the
\* signal descriptor leave behind.
ShutDown(s) ==
    /\ s.s_inotify_instance = -1
    /\ s.s_watch_instance = -1
    /\ s.k_signalfd = -1

\* No descriptor and no watch of the session is left.
AllReleased(s) ==
    /\ s.open_fds = {}
    /\ s.k_signalfd = -1
    /\ s.k_inotify = -1
    /\ s.k_watch = {}

\* C1: a burst of n >= 1 modify notifications, each drained before poll times
\* out, followed by a timeout, invokes the command exactly once: the timeout
\* that ends the burst starts one invocation and clears the burst, and a
\* timeout with no notification drained since the last invocation starts none.
C1_BurstInvokesOnce ==
    [][TimeoutStep =>
          /\ run'.invocations =
                 run.invocations + (IF run.burst >= 1 THEN 1 ELSE 0)
          /\ run.burst >= 1 => run'.pc = "system" /\ run'.burst = 0
          /\ run.burst = 0 => run'.pc = "poll"]_vars

\* A burst of at least two drained modify notifications has fired once.
C1_Witness ==
    /\ run.last = "fire"
    /\ run.fired_burst >= 2
    /\ run.invocations = 1

\* C2: while no modify-class record has been delivered the command is never
\* invoked, and every timeout with a pending count of 0 leaves the loop as it
\* was: Idle, at the next poll, with the same handles and no invocation.
C2_IdleStability ==
    [][/\ run'.modified = 0 =>
              run'.invocations = 0 /\ run'.pc # "system"
                  /\ run'.watch_events = 0
       /\ TimeoutStep /\ run.watch_events = 0 =>
              run' = [run EXCEPT !.last = "idle", !.timeout = TimeoutIdle]]_vars

\* The loop has timed out Idle and no modification was ever delivered.
C2_Witness ==
    /\ run.last = "idle"
    /\ run.modified = 0
    /\ run.pc = "poll"

\* C3: a SIGINT or SIGTERM consumed by the loop, Idle or Accumulating, ends it
\* cleanly: the watch is deregistered, the notification instance closed, no
\* command is invoked and the status is success.
C3_SignalCleanTermination ==
    [][run.pc = "poll" /\ run'.last = "signal" =>
          /\ run'.pc = "done"
          /\ run'.ret = EXIT_SUCCESS
          /\ run'.invocations = run.invocations
          /\ run'.k_watch = {}
          /\ run'.k_inotify = -1]_vars

\* C4: after an invocation the session ends iff the command exited normally
\* with a nonzero status; otherwise the loop is Idle again, at the next poll.
C4_StopIffNormalNonzero ==
    [][ReturnStep =>
          /\ run'.pc = "done" <=>
                 (run'.cmd.how = "exit" /\ run'.cmd.code # 0)
          /\ run'.pc # "done" =>
                 run'.pc = "poll" /\ run'.watch_events = 0]_vars

\* A command killed by a signal has returned and the loop waits again.
C4_Witness ==
    /\ run.last = "returned"
    /\ run.cmd.how \in {"signal", "core"}
    /\ run.pc = "poll"

\* C5: a session ended by a normal nonzero exit of the command is shut down
\* (watch, instance and signal descriptor released) and returns success; an
\* abnormal termination of the command leaves the status as it was.
C5_StopReturnsSuccess ==
    [][ReturnStep =>
          /\ (run'.cmd.how = "exit" /\ run'.cmd.code # 0) =>
                 /\ run'.pc = "done"
                 /\ run'.ret = EXIT_SUCCESS
                 /\ ShutDown(run')
                 /\ AllReleased(run')
          /\ run'.cmd.how # "exit" => run'.ret = run.ret]_vars

\* The command exited with status 1 and the session has returned.
C5_Witness ==
    /\ run.last = "returned"
    /\ run.cmd = [how |-> "exit", code |-> 1]
    /\ run.pc = "done"

\* C6: a failed registration of the watch makes watch_for_changes return
\* failure without entering the loop, the signal descriptor closed.
C6_RegistrationFailureIsFatal ==
    run.startup = "watch_fail" =>
        /\ run.pc = "done"
        /\ run.ret = EXIT_FAILURE
        /\ run.last = "none"
        /\ run.k_signalfd = -1

\* C7: when watch_for_changes has returned, on whatever path, no descriptor
\* and no watch opened by the session is left open.
C7_NoHandleLeftOpen ==
    run.pc = "done" => AllReleased(run)

\* C8: a read of the signal descriptor of the wrong size ends the loop in the
\* same iteration, with nothing drained and nothing invoked, shuts down and
\* returns failure.
C8_ShortReadIsFatal ==
    [][run.pc = "poll" /\ run'.last = "shortread" =>
          /\ run'.pc = "done"
          /\ run'.ret = EXIT_FAILURE
          /\ run'.invocations = run.invocations
          /\ run'.burst = run.burst
          /\ run'.watch_events = run.watch_events
          /\ ShutDown(run')]_vars

\* The read came up short while events were pending and records were queued.
C8_Witness ==
    /\ run.last = "shortread"
    /\ run.watch_events > 0
    /\ run.pc = "done"

\* C9: an error of poll, Idle or Accumulating, ends the loop without an
\* invocation, shuts down and returns failure.
C9_PollErrorIsFatal ==
    [][run.pc = "poll" /\ run'.last = "pollerr" =>
          /\ run'.pc = "done"
          /\ run'.ret = EXIT_FAILURE
          /\ run'.invocations = run.invocations
          /\ ShutDown(run')]_vars

\* poll failed while events were pending.
C9_Witness ==
    /\ run.last = "pollerr"
    /\ run.watch_events > 0
    /\ run.pc = "done"

\* What a run shows of itself: where it is, its status, its invocations and
\* their results.
Observed(s) ==
    [pc |-> s.pc, ret |-> s.ret, invocations |-> s.invocations,
     rc |-> s.rc, last |-> s.last, watch_events |-> s.watch_events]

LoopStep ==
    /\ run.pc = "poll"
    /\ run'.last \notin {"notify", "raise"}

\* A step of the loop whose inotify branch ran.
DrainStep ==
    /\ run.pc = "poll"
    /\ run'.last = "drain"

\* The modify-class records among the first n records of a queue.
ModifyCount(q, n) ==
    Cardinality({i \in 1..n : "IN_MODIFY" \in q[i].mask})

\* C11: the command is invoked only by an iteration whose poll timed out with
\* no descriptor ready and a pending count > 0; an iteration with a ready
\* descriptor invokes nothing, whatever the pending count.
C11_InvokedOnlyOnQuietTimeout ==
    [][/\ run'.invocations # run.invocations =>
              /\ run.pc = "poll"
              /\ revents(run) = {}
              /\ run.watch_events > 0
              /\ run'.invocations = run.invocations + 1
       /\ LoopStep /\ revents(run) # {} =>
              run'.invocations = run.invocations /\ run'.pc # "system"]_vars

\* A drain found events already pending and the trigger was deferred.
C11_Witness ==
    /\ run.last = "drain"
    /\ run.watch_events >= 2
    /\ run.invocations = 0
    /\ run.pc = "poll"

\* C12 as stated: a drain that counts k modify records adds k to the pending
\* count.
C12_PendingGrowsByCount ==
    [][DrainStep =>
          run'.watch_events = run.watch_events
              + ModifyCount(run.queue, Len(run.queue) - Len(run'.queue))]_vars

\* C12 amended: a drain that counts k > 0 modify records adds exactly 1 to
\* the pending count, and a drain that counts none leaves it unchanged.
C12_PendingGrowsByOne ==
    [][DrainStep =>
          LET k == ModifyCount(run.queue, Len(run.queue) - Len(run'.queue))
          IN  /\ run'.burst = run.burst + k
              /\ run'.watch_events =
                     run.watch_events + (IF k > 0 THEN 1 ELSE 0)]_vars

\* One drain has counted two modify records.
C12_Witness ==
    /\ run.last = "drain"
    /\ run.burst >= 2
    /\ run.watch_events = 1

\* C13: the pending count is never negative and is 0 whenever the command is
\* executing and right after it returned, however many events were pending
\* when the trigger fired.
C13_PendingResetOnTrigger ==
    /\ run.watch_events >= 0
    /\ run.pc = "system" => run.watch_events = 0
    /\ run.last \in {"fire", "returned"} => run.watch_events = 0

\* The command runs after a trigger that found two events pending.
C13_Witness ==
    /\ run.pc = "system"
    /\ run.fired_pending >= 2
    /\ run.watch_events = 0

\* C14: every poll is given the short timeout iff the pending count is > 0
\* and the long one iff it is 0; the first poll after an invocation gets the
\* long one.
C14_TimeoutFollowsPending ==
    [][LoopStep =>
          /\ run'.timeout = TimeoutAccumulating <=> run.watch_events > 0
          /\ run'.timeout = TimeoutIdle <=> run.watch_events = 0
          /\ run.last = "returned" => run'.timeout = TimeoutIdle]_vars

\* A poll with the short timeout has timed out and fired the command.
C14_Witness ==
    /\ run.timeout = TimeoutAccumulating
    /\ run.last = "fire"
    /\ run.invocations >= 1

\* C15 as stated: a notification that arrives while the command executes is
\* not counted during the stall, stays queued, and is counted by the first
\* drain after the loop resumes (which makes the loop Accumulating, so that
\* the next quiet timeout invokes the command again).
C15_StallNotificationsCounted ==
    [][/\ run.pc = "system" /\ run'.pc = "system" =>
              /\ run'.burst = 0
              /\ run'.watch_events = 0
              /\ Len(run'.queue) >= Len(run.queue)
       /\ (/\ run.last = "returned"
           /\ LoopStep
           /\ run.queue # <<>>
           /\ run.sigpending = {}
           /\ run'.last # "pollerr") =>
              /\ run'.last = "drain"
              /\ run'.queue = <<>>
              /\ run'.burst = ModifyCount(run.queue, Len(run.queue))
              /\ run'.burst > 0 => run'.watch_events > 0]_vars

\* C16: at most one invocation is in progress; while one is, the loop does
\* not wait, drain or consume a signal; an invocation starts only when none
\* is in progress, at a poll that timed out with a pending count > 0.
C16_SynchronousExecution ==
    [][/\ run'.running <= 1
       /\ run'.running = 1 <=> run'.pc = "system"
       /\ run.running = 1 =>
              /\ run'.burst = run.burst
              /\ run'.watch_events = run.watch_events
              /\ run'.timeout = run.timeout
              /\ run.sigpending \subseteq run'.sigpending
              /\ run'.last \in {"notify", "raise", "returned"}
       /\ run'.invocations > run.invocations =>
              /\ run.running = 0
              /\ run.pc = "poll"
              /\ poll(run, FALSE) = 0
              /\ run.watch_events > 0]_vars

\* A second invocation is in progress while a notification and a signal that
\* arrived during it wait untouched.
C16_Witness ==
    /\ run.pc = "system"
    /\ run.running = 1
    /\ run.invocations = 2
    /\ run.queue # <<>>
    /\ run.sigpending # {}

\* C17: once the loop is Accumulating, if no descriptor becomes ready and
\* poll does not fail, the command is eventually invoked: an Accumulating
\* loop leads to an invocation, to a ready descriptor or to the end of the
\* loop.
C17_AccumulatingLeadsToInvocation ==
    (run.pc = "poll" /\ run.watch_events > 0)
        ~> (run.last = "fire" \/ revents(run) # {} \/ run.pc = "done")

\* One modification, left alone, has led to one invocation.
C17_Witness ==
    /\ run.pc = "system"
    /\ run.last = "fire"
    /\ run.fired_burst = 1
    /\ run.delivered = 1
    /\ run.invocations = 1

\* C18: shutdown_watcher removes the watch (if registered) and then closes
\* the instance (if open), leaving both handles at -1; a further call, or a
\* call on a session never opened, changes nothing and releases nothing
\* again; a registered watch always has an open instance.
C18_ShutdownIdempotent ==
    LET a == shutdown_watcher(run)
        b == shutdown_watcher(a)
        calls == (IF run.s_inotify_instance # -1 /\ run.s_watch_instance # -1
                  THEN <<"inotify_rm_watch">> ELSE <<>>)
                 \o (IF run.s_inotify_instance # -1
                     THEN <<"close">> ELSE <<>>)
    IN  /\ a.s_inotify_instance = -1
        /\ a.s_watch_instance = -1
        /\ a.teardown = run.teardown \o calls
        /\ run.s_inotify_instance # -1 =>
               /\ run.s_inotify_instance \notin a.open_fds
               /\ a.k_watch = {}
        /\ run.s_inotify_instance = -1 => a = run
        /\ b = a
        /\ run.s_watch_instance # -1 =>
               /\ run.s_inotify_instance # -1
               /\ run.s_inotify_instance \in run.open_fds
        /\ run.pc = "done" => Len(run.teardown) <= 2

\* The session has been shut down: watch removed, then instance closed.
C18_Witness ==
    /\ run.pc = "done"
    /\ run.teardown = <<"inotify_rm_watch", "close">>
    /\ run.s_inotify_instance = -1
    /\ run.s_watch_instance = -1

\* C19: watch_handler returns the number of records of the batch whose mask
\* has the modify bit; records of other kinds, a rename pair included, add
\* nothing, and an empty or failed read gives 0.
C19_HandlerCountsModify ==
    run.pc = "returned" =>
        /\ run.events = ModifyCount(run.rd.records, Len(run.rd.records))
        /\ run.rd.len <= 0 => run.events = 0
        /\ (\A i \in 1..Len(run.rd.records) :
                "IN_MODIFY" \notin run.rd.records[i].mask) => run.events = 0

\* A batch with a rename pair sharing a cookie and one modification gave 1.
C19_Witness ==
    /\ run.pc = "returned"
    /\ Len(run.rd.records) = 3
    /\ \E i, j, k \in 1..3 :
           /\ run.rd.records[i].mask = {"IN_MOVED_FROM"}
           /\ run.rd.records[j].mask = {"IN_MOVED_TO"}
           /\ run.rd.records[i].cookie = run.rd.records[j].cookie
           /\ "IN_MODIFY" \in run.rd.records[k].mask
    /\ run.events = 1

\* What a run does, its diagnostics left out: its position and loop state,
\* the branch it took, its invocations and their results, its handles and
\* the calls of its shutdown, its status.
Behaviour(s) ==
    [pc |-> s.pc, last |-> s.last, watch_events |-> s.watch_events,
     timeout |-> s.timeout, invocations |-> s.invocations, rc |-> s.rc,
     running |-> s.running, queue |-> s.queue, sigpending |-> s.sigpending,
     s_inotify_instance |-> s.s_inotify_instance,
     s_watch_instance |-> s.s_watch_instance,
     open_fds |-> s.open_fds, k_watch |-> s.k_watch,
     teardown |-> s.teardown, ret |-> s.ret]

\* C20: two runs on the same inputs that differ only in the verbose flag go
\* through the same loop states, make the same invocations and shutdown
\* steps and return the same status; only the verbose run prints.
C20_VerboseOnlyDiagnostics ==
    twin.verbose # run.verbose =>
        /\ Behaviour(twin) = Behaviour(run)
        /\ \A s \in {run, twin} : ~s.verbose => s.out = 0

\* A verbose run has printed, invoked the command and returned, and so has
\* its silent twin, without printing.
C20_Witness ==
    /\ run.verbose
    /\ ~twin.verbose
    /\ run.out > 0
    /\ twin.out = 0
    /\ run.invocations >= 1
    /\ run.pc = "done"
    /\ twin.pc = "done"

====
